---- MODULE Spec2Model ----
(***************************************************************************)
(* Model of the ingress-iceberg ingestion pipeline                         *)
(*   types.rs          ingest_data (HTTP handler)                          *)
(*   arrow_handler.rs  ArrowStreamHandler::process_arrow_bytes             *)
(*   iceberg_client.rs IcebergClient::{write_to_table, ensure_table_exists,*)
(*                     ensure_namespace_exists,                            *)
(*                     convert_arrow_schema_to_iceberg}                    *)
(* running against a REST catalog.  Every awaited catalog call is one      *)
(* atomic step; the code between two awaits belongs to the step of the     *)
(* call that precedes it.  Strings that the code splits or concatenates    *)
(* are sequences of characters.  Option<T> is a sequence of length <= 1.   *)
(***************************************************************************)
EXTENDS Integers, Sequences, FiniteSets, TLC

\* ------------------------------------------------------------- bounds
\* Largest row count of a record batch in a request body.
MaxRows == 1
\* Largest snapshot log a table holds when the service starts.
MaxSnap == 1
\* Largest number of record-batch blocks in a stream given to the decoder.
MaxBlocks == 3
\* Largest number of columns in a schema given to the schema mapper.
MaxCols == 2

\* Concurrent requests served by the axum worker pool.
Writers == {"w1", "w2"}

\* ------------------------------------------------------------ strings
None == <<>>
Some(x) == <<x>>

DefaultNamespace == <<"d", "e", "f", "a", "u", "l", "t">>
LocationPrefix == <<"s3://iceberg-data/">>

Range(s) == {s[i] : i \in 1..Len(s)}

\* str::split('.'): the segments between the dots, empty ones included.
RECURSIVE SplitFrom(_, _, _)
SplitFrom(s, i, cur) ==
    IF i > Len(s) THEN <<cur>>
    ELSE IF s[i] = "." THEN <<cur>> \o SplitFrom(s, i + 1, <<>>)
    ELSE SplitFrom(s, i + 1, Append(cur, s[i]))

SplitDot(s) == SplitFrom(s, 1, <<>>)

\* reqwest StatusCode::is_success
IsSuccess(status) == status \in 200..299

\* ------------------------------------------------------ Arrow streams
Field(name, data_type, nullable) ==
    [name |-> name, data_type |-> data_type, nullable |-> nullable]

SchemaA == <<Field("id", "Int32", FALSE), Field("name", "Utf8", TRUE)>>
SchemaB == <<Field("name", "Utf8", FALSE), Field("id", "Int64", FALSE),
             Field("tags", "Struct", TRUE)>>
Schemas == {SchemaA, SchemaB}

\* A record batch: its schema, its row count and, column by column, its
\* values (left out where only the shape of the batch matters).
RecordBatch(schema, num_rows, columns) ==
    [schema |-> schema, num_rows |-> num_rows, columns |-> columns]

NoBatch == RecordBatch(<<>>, 0, <<>>)

\* An IPC stream: a schema header (absent when the framing is broken) and
\* the record-batch blocks that follow it, each readable or not.
Block(ok, n) == [ok |-> ok, num_rows |-> n, columns |-> <<>>]
Stream(header, blocks) == [header |-> header, blocks |-> blocks]

ValidStream(s, n) == Stream(Some(s), <<Block(TRUE, n)>>)

\* Bodies that do not decode: broken framing (the empty body included), a
\* schema header with no block, a first block that cannot be read.
BadBodies ==
    {Stream(None, <<>>), Stream(Some(SchemaA), <<>>),
     Stream(Some(SchemaA), <<Block(FALSE, 0)>>)}

\* The bytes of a JSON document {"table_name", "namespace", "data"}: read
\* as an IPC stream they have no schema header.
JsonBody(table_name, namespace, data) ==
    [header |-> None, blocks |-> <<>>,
     json |-> [table_name |-> table_name, namespace |-> namespace, data |-> data]]

DecodeOk(b) == [ok |-> TRUE, batch |-> b, error |-> ""]
DecodeErr(e) == [ok |-> FALSE, batch |-> NoBatch, error |-> e]
NotDecoded == [ok |-> FALSE, batch |-> NoBatch, error |-> "not run"]

\* A variant that takes a stream without blocks for a batch without rows.
ProcessArrowBytes_EmptyBatch(arrow_bytes) ==
    IF arrow_bytes.header = None
    THEN DecodeErr("Failed to create Arrow stream reader")
    ELSE IF arrow_bytes.blocks = <<>>
    THEN DecodeOk(RecordBatch(arrow_bytes.header[1], 0, <<>>))
    ELSE IF ~Head(arrow_bytes.blocks).ok
    THEN DecodeErr("Failed to read Arrow record batch")
    ELSE DecodeOk(RecordBatch(arrow_bytes.header[1],
                              Head(arrow_bytes.blocks).num_rows,
                              Head(arrow_bytes.blocks).columns))

\* A variant that reads the stream to its end and keeps the last block.
ProcessArrowBytes_LastBlock(arrow_bytes) ==
    IF arrow_bytes.header = None
    THEN DecodeErr("Failed to create Arrow stream reader")
    ELSE IF arrow_bytes.blocks = <<>>
    THEN DecodeErr("No record batch found in Arrow stream")
    ELSE IF \E i \in 1..Len(arrow_bytes.blocks) : ~arrow_bytes.blocks[i].ok
    THEN DecodeErr("Failed to read Arrow record batch")
    ELSE DecodeOk(RecordBatch(arrow_bytes.header[1],
                              arrow_bytes.blocks[Len(arrow_bytes.blocks)].num_rows,
                              arrow_bytes.blocks[Len(arrow_bytes.blocks)].columns))

ProcessArrowBytes(arrow_bytes) ==
    IF arrow_bytes.header = None
    THEN DecodeErr("Failed to create Arrow stream reader")
    ELSE IF arrow_bytes.blocks = <<>>
    THEN DecodeErr("No record batch found in Arrow stream")
    ELSE IF ~Head(arrow_bytes.blocks).ok
    THEN DecodeErr("Failed to read Arrow record batch")
    ELSE DecodeOk(RecordBatch(arrow_bytes.header[1],
                              Head(arrow_bytes.blocks).num_rows,
                              Head(arrow_bytes.blocks).columns))

\* general_purpose::STANDARD: a text that decodes to bytes, or one that
\* does not decode (a character outside the alphabet, bad padding).
Base64(bytes) == [valid |-> TRUE, bytes |-> bytes]
InvalidBase64 == [valid |-> FALSE, bytes |-> <<>>]

\* A variant that reads a text that is no base64 as no bytes at all.
ProcessArrowData_NoBytes(base64_data) ==
    LET arrow_data == base64_data.bytes IN
    IF ~base64_data.valid \/ arrow_data.header = None
    THEN DecodeErr("Failed to create Arrow stream reader")
    ELSE IF arrow_data.blocks = <<>>
    THEN DecodeErr("No record batch found in Arrow stream")
    ELSE IF ~Head(arrow_data.blocks).ok
    THEN DecodeErr("Failed to read Arrow record batch")
    ELSE DecodeOk(RecordBatch(arrow_data.header[1],
                              Head(arrow_data.blocks).num_rows,
                              Head(arrow_data.blocks).columns))

\* process_arrow_data: the base64 decoding, then the stream reader on the
\* decoded bytes and its first block.
ProcessArrowData(base64_data) ==
    IF ~base64_data.valid
    THEN DecodeErr("Failed to decode base64 data")
    ELSE LET arrow_data == base64_data.bytes IN
         IF arrow_data.header = None
         THEN DecodeErr("Failed to create Arrow stream reader")
         ELSE IF arrow_data.blocks = <<>>
         THEN DecodeErr("No record batch found in Arrow stream")
         ELSE IF ~Head(arrow_data.blocks).ok
         THEN DecodeErr("Failed to read Arrow record batch")
         ELSE DecodeOk(RecordBatch(arrow_data.header[1],
                                   Head(arrow_data.blocks).num_rows,
                                   Head(arrow_data.blocks).columns))

\* A variant of the writer that writes no block for a batch without rows.
RecordBatchToStream_SkipEmpty(record_batch) ==
    Stream(Some(record_batch.schema),
           IF record_batch.num_rows = 0 THEN <<>>
           ELSE <<[ok |-> TRUE, num_rows |-> record_batch.num_rows,
                   columns |-> record_batch.columns]>>)

\* StreamWriter::try_new(schema), write(record_batch), finish(): the schema
\* header and one block holding the batch.
RecordBatchToStream(record_batch) ==
    Stream(Some(record_batch.schema),
           <<[ok |-> TRUE, num_rows |-> record_batch.num_rows,
              columns |-> record_batch.columns]>>)

RecordBatchToBase64(record_batch) == Base64(RecordBatchToStream(record_batch))

\* ------------------------------------------------------ schema mapper
\* DataType::Timestamp(unit, timezone), written as the type prints.
Timestamps ==
    {"Timestamp(Second, None)", "Timestamp(Millisecond, None)",
     "Timestamp(Microsecond, Some(UTC))", "Timestamp(Nanosecond, Some(+08:00))"}

\* A variant whose fallback arm rejects the type.
IcebergType_RejectUnknown(data_type) ==
    CASE data_type \in {"Int8", "Int16", "Int32"} -> "int"
      [] data_type = "Int64" -> "long"
      [] data_type \in {"UInt8", "UInt16", "UInt32"} -> "int"
      [] data_type = "UInt64" -> "long"
      [] data_type = "Float32" -> "float"
      [] data_type = "Float64" -> "double"
      [] data_type \in {"Utf8", "LargeUtf8"} -> "string"
      [] data_type = "Boolean" -> "boolean"
      [] data_type = "Date32" -> "date"
      [] data_type = "Date64" -> "timestamp"
      [] data_type \in Timestamps -> "timestamp"
      [] OTHER -> "unsupported"

IcebergType(data_type) ==
    CASE data_type \in {"Int8", "Int16", "Int32"} -> "int"
      [] data_type = "Int64" -> "long"
      [] data_type \in {"UInt8", "UInt16", "UInt32"} -> "int"
      [] data_type = "UInt64" -> "long"
      [] data_type = "Float32" -> "float"
      [] data_type = "Float64" -> "double"
      [] data_type \in {"Utf8", "LargeUtf8"} -> "string"
      [] data_type = "Boolean" -> "boolean"
      [] data_type = "Date32" -> "date"
      [] data_type = "Date64" -> "timestamp"
      [] data_type \in Timestamps -> "timestamp"
      [] OTHER -> "string"

\* The loop of convert_arrow_schema_to_iceberg: fields pushed in order,
\* field_id starting at 1 and incremented after every push.
\* A variant of the loop that copies the nullable flag into required.
RECURSIVE ConvertFields_RequiredIsNullable(_, _, _)
ConvertFields_RequiredIsNullable(arrow_fields, field_id, fields) ==
    IF arrow_fields = <<>> THEN fields
    ELSE ConvertFields_RequiredIsNullable(Tail(arrow_fields), field_id + 1,
             Append(fields,
                    [id |-> field_id,
                     name |-> Head(arrow_fields).name,
                     required |-> Head(arrow_fields).nullable,
                     field_type |-> IcebergType(Head(arrow_fields).data_type)]))

RECURSIVE ConvertFields(_, _, _)
ConvertFields(arrow_fields, field_id, fields) ==
    IF arrow_fields = <<>> THEN fields
    ELSE ConvertFields(Tail(arrow_fields), field_id + 1,
            Append(fields, [id |-> field_id,
                            name |-> Head(arrow_fields).name,
                            required |-> ~Head(arrow_fields).nullable,
                            field_type |-> IcebergType(Head(arrow_fields).data_type)]))

\* A variant that numbers the fields from 0.
ConvertArrowSchemaToIceberg_FromZero(arrow_schema) ==
    [schema_type |-> "struct", fields |-> ConvertFields(arrow_schema, 0, <<>>)]

ConvertArrowSchemaToIceberg(arrow_schema) ==
    [schema_type |-> "struct", fields |-> ConvertFields(arrow_schema, 1, <<>>)]

\* ----------------------------------------------------- create request
Location_TableOnly(namespace, table_name) ==
    LocationPrefix \o table_name

Location(namespace, table_name) ==
    LocationPrefix \o namespace \o <<"/">> \o table_name

DefaultWriteProperties ==
    {<<"write.format.default", "parquet">>,
     <<"write.metadata.metrics.default", "truncate(16)">>}

CreateTableRequest(namespace, table_name, schema) ==
    [name |-> table_name,
     location |-> Location(namespace, table_name),
     schema |-> schema,
     partition_spec |-> <<>>,
     write_order |-> [order_id |-> 0, fields |-> <<>>],
     stage_create |-> TRUE,
     properties |-> DefaultWriteProperties]

\* ------------------------------------------------------------ catalog
\* The REST catalog: a list of namespaces (each a sequence of segments) and
\* the tables, keyed by the namespace string of the request path and the
\* table name.
Key(namespace, table_name) == <<namespace, table_name>>

\* The namespace a request path /v1/namespaces/{namespace}/... addresses:
\* the path parameter is one segment.
PathNamespace(namespace) == <<namespace>>

Snapshot(i) == [snapshot_id |-> i]
SnapshotLog(k) == [i \in 1..k |-> Snapshot(i)]

TableMetadata(req, log) ==
    [schema |-> req.schema,
     location |-> req.location,
     partition_spec |-> req.partition_spec,
     properties |-> req.properties,
     snapshot_log |-> log,
     current_snapshot_id |->
        IF log = <<>> THEN None ELSE Some(log[Len(log)].snapshot_id)]

\* POST /v1/namespaces
CatalogCreateNamespace(nss, create_request) ==
    IF create_request.namespace \in Range(nss)
    THEN [namespaces |-> nss, status |-> 409]
    ELSE [namespaces |-> Append(nss, create_request.namespace), status |-> 200]

\* HEAD /v1/namespaces/{namespace}/tables/{table}
CatalogHeadTable(tbls, namespace, table_name) ==
    IF Key(namespace, table_name) \in DOMAIN tbls THEN 204 ELSE 404

\* POST /v1/namespaces/{namespace}/tables
CatalogCreateTable(nss, tbls, namespace, req) ==
    IF PathNamespace(namespace) \notin Range(nss)
    THEN [tables |-> tbls, status |-> 404]
    ELSE IF Key(namespace, req.name) \in DOMAIN tbls
    THEN [tables |-> tbls, status |-> 409]
    ELSE [tables |-> (Key(namespace, req.name) :> TableMetadata(req, <<>>)) @@ tbls,
          status |-> 200]

\* GET /v1/namespaces/{namespace}/tables/{table}
CatalogLoadTable(tbls, namespace, table_name) ==
    IF Key(namespace, table_name) \in DOMAIN tbls
    THEN [status |-> 200, body |-> tbls[Key(namespace, table_name)]]
    ELSE [status |-> 404, body |-> <<>>]

\* GET /v1/namespaces/{namespace}/tables: the identifiers, in no order.
CatalogListTables(nss, tbls, namespace) ==
    IF PathNamespace(namespace) \in Range(nss)
    THEN [status |-> 200,
          body |-> {[namespace |-> PathNamespace(k[1]), name |-> k[2]] :
                       k \in {t \in DOMAIN tbls : t[1] = namespace}}]
    ELSE [status |-> 404, body |-> {}]

\* GET /v1/namespaces
CatalogListNamespaces(nss) == [status |-> 200, body |-> nss]

\* What a reader of the table sees of its history; an absent table has none.
SnapView(tbls, k) ==
    IF k \in DOMAIN tbls
    THEN [snapshot_log |-> tbls[k].snapshot_log,
          current_snapshot_id |-> tbls[k].current_snapshot_id]
    ELSE [snapshot_log |-> <<>>, current_snapshot_id |-> None]

\* -------------------------------------------------------------- state
VARIABLES
    namespaces,   \* catalog: the namespace list
    tables,       \* catalog: table key -> table metadata
    pc,           \* per request: where its handler is suspended
    query,        \* per request: IngestQuery {table_name, namespace}
    body,         \* per request: the bytes of the request body
    decoded,      \* per request: the result of process_arrow_bytes
    calls,        \* per request: the catalog calls it has issued, in order
    ensured,      \* per request: results of ensure_namespace / ensure_table
    result,       \* per request: the result of write_to_table
    response,     \* per request: the HTTP response
    snapAtStart,  \* per request: the table's history when write_to_table began
    fn            \* a call of the decoder or the schema mapper on its own

vars == <<namespaces, tables, pc, query, body, decoded, calls, ensured, result,
          response, snapAtStart, fn>>

\* The state of the requests and the catalog.
pipeline == <<namespaces, tables, pc, query, body, decoded, calls, ensured,
              result, response, snapAtStart>>

catalog == <<namespaces, tables>>

\* ----------------------------------------------------------- requests
NsA == <<"a">>
NsAB == <<"a", ".", "b">>
NsSlash == <<"a", "/", "b">>
TblT == <<"t">>
TblSlash == <<"b", "/", "t">>
\* ?table_name= : the parameter is there and its value is the empty string.
TblEmpty == <<>>

Query(namespace, table_name) == [namespace |-> namespace, table_name |-> table_name]

\* POST /ingest with content-type application/json and no query string, as
\* the integration tests send it: a batch with rows and a batch without.
JsonBodies ==
    {JsonBody(TblT, NsA, RecordBatchToBase64(RecordBatch(SchemaA, MaxRows, <<>>))),
     JsonBody(TblT, NsA, RecordBatchToBase64(RecordBatch(SchemaB, 0, <<>>)))}

\* The POST /ingest requests the model draws from: a query string
\* (namespace, table_name), either absent, and a body.
Requests ==
    {[query |-> Query(None, Some(TblT)), body |-> ValidStream(SchemaA, n)] :
        n \in 0..MaxRows}
    \cup {[query |-> Query(None, Some(TblT)), body |-> b] : b \in BadBodies}
    \cup {[query |-> Query(None, Some(TblT)), body |-> ValidStream(SchemaB, MaxRows)],
          [query |-> Query(Some(NsAB), Some(TblT)), body |-> ValidStream(SchemaA, MaxRows)],
          [query |-> Query(Some(NsA), Some(TblSlash)), body |-> ValidStream(SchemaA, MaxRows)],
          [query |-> Query(Some(NsSlash), Some(TblT)), body |-> ValidStream(SchemaB, 0)],
          [query |-> Query(None, None), body |-> ValidStream(SchemaA, MaxRows)],
          [query |-> Query(None, Some(TblEmpty)), body |-> ValidStream(SchemaA, MaxRows)]}
    \cup {[query |-> Query(None, None), body |-> b] : b \in JsonBodies}

NoQuery == [namespace |-> None, table_name |-> None]
NoBody == Stream(None, <<>>)

\* A variant that takes a missing namespace for the empty one.
NamespaceOf_Empty(q) == IF q.namespace = None THEN <<>> ELSE q.namespace[1]

\* query.namespace.unwrap_or_else(|| "default".to_string())
NamespaceOf(q) == IF q.namespace = None THEN DefaultNamespace ELSE q.namespace[1]
TableOf(q) == q.table_name[1]
KeyOf(w) == Key(NamespaceOf(query[w]), TableOf(query[w]))

\* A request sent to the catalog and what came back.  url_namespace is the
\* {namespace} parameter of the request path, None for /v1/namespaces.
Call(op, err, status, json) ==
    [op |-> op, url_namespace |-> None, err |-> err, status |-> status,
     body |-> json]

\* A call of /v1/namespaces/{namespace}/tables[/{table}].
TableCall(op, namespace, err, status, json) ==
    [Call(op, err, status, json) EXCEPT !.url_namespace = Some(namespace)]

WriteOk(n) == [done |-> TRUE, ok |-> TRUE, rows |-> n]
WriteErr == [done |-> TRUE, ok |-> FALSE, rows |-> 0]
NotWritten == [done |-> FALSE, ok |-> FALSE, rows |-> 0]

NoResponse == [status |-> "none", success |-> FALSE, records_ingested |-> None]

\* The match of ingest_data on the decode result and the write result.
IngestResponse_AllServerError(dec, written) ==
    IF dec.ok /\ written.ok
    THEN [status |-> "OK", success |-> TRUE, records_ingested |-> Some(written.rows)]
    ELSE [status |-> "INTERNAL_SERVER_ERROR", success |-> FALSE,
          records_ingested |-> None]

IngestResponse(dec, written) ==
    IF dec.ok
    THEN IF written.ok
         THEN [status |-> "OK", success |-> TRUE,
               records_ingested |-> Some(written.rows)]
         ELSE [status |-> "INTERNAL_SERVER_ERROR", success |-> FALSE,
               records_ingested |-> None]
    ELSE [status |-> "BAD_REQUEST", success |-> FALSE, records_ingested |-> None]

\* axum's Query<IngestQuery> extractor: table_name is a required String.
QueryRejection == [status |-> "BAD_REQUEST", success |-> FALSE,
                   records_ingested |-> None]

\* ------------------------------------------------------------ initial
InitCatalogs ==
    {[namespaces |-> <<>>, tables |-> <<>>],
     [namespaces |-> <<PathNamespace(DefaultNamespace)>>, tables |-> <<>>]}
    \cup
    {[namespaces |-> <<PathNamespace(DefaultNamespace)>>,
      tables |-> (Key(DefaultNamespace, TblT) :>
                    TableMetadata(
                        CreateTableRequest(DefaultNamespace, TblT,
                            ConvertArrowSchemaToIceberg(SchemaA)),
                        SnapshotLog(k)))] : k \in 0..MaxSnap}

\* No call of a component on its own is under way.
NoFn == [op |-> "none", done |-> FALSE, arg |-> <<>>, out |-> <<>>]

\* The service has started against a catalog c and no request has arrived.
Started(c) ==
    /\ namespaces = c.namespaces
    /\ tables = c.tables
    /\ pc = [w \in Writers |-> "idle"]
    /\ query = [w \in Writers |-> NoQuery]
    /\ body = [w \in Writers |-> NoBody]
    /\ decoded = [w \in Writers |-> NotDecoded]
    /\ calls = [w \in Writers |-> <<>>]
    /\ ensured = [w \in Writers |-> [ns |-> "none", table |-> "none"]]
    /\ result = [w \in Writers |-> NotWritten]
    /\ response = [w \in Writers |-> NoResponse]
    /\ snapAtStart = [w \in Writers |-> SnapView(<<>>, <<>>)]

Init ==
    /\ \E c \in InitCatalogs : Started(c)
    /\ fn = NoFn

\* ------------------------------------------------------------ actions
\* A variant in which a failed write ends the handler without an answer.
Return_ErrorEscapes(w, cs, ens, written) ==
    /\ calls' = [calls EXCEPT ![w] = cs]
    /\ ensured' = [ensured EXCEPT ![w] = ens]
    /\ result' = [result EXCEPT ![w] = written]
    /\ response' = [response EXCEPT ![w] =
                       IF written.ok THEN IngestResponse(decoded[w], written)
                       ELSE NoResponse]
    /\ pc' = [pc EXCEPT ![w] = "done"]

\* write_to_table returns (an error through `?`, or Ok(row_count)) and
\* ingest_data answers.
Return(w, cs, ens, written) ==
    /\ calls' = [calls EXCEPT ![w] = cs]
    /\ ensured' = [ensured EXCEPT ![w] = ens]
    /\ result' = [result EXCEPT ![w] = written]
    /\ response' = [response EXCEPT ![w] = IngestResponse(decoded[w], written)]
    /\ pc' = [pc EXCEPT ![w] = "done"]

\* The handler awaits its next catalog call.
Await(w, cs, ens, next) ==
    /\ calls' = [calls EXCEPT ![w] = cs]
    /\ ensured' = [ensured EXCEPT ![w] = ens]
    /\ pc' = [pc EXCEPT ![w] = next]
    /\ UNCHANGED <<result, response>>

\* A variant that reports the length of the table's history.
RowCount_FromTable(w) == Len(SnapView(tables, KeyOf(w)).snapshot_log)

RowCount(w) == decoded[w].batch.num_rows

\* A variant that starts the write whatever the decoder returned.
IngestData_WriteFirst(w) ==
    /\ pc[w] = "idle"
    /\ \E r \in Requests :
       LET q == r.query IN
          /\ q.table_name # None
          /\ query' = [query EXCEPT ![w] = q]
          /\ body' = [body EXCEPT ![w] = r.body]
          /\ decoded' = [decoded EXCEPT ![w] = ProcessArrowBytes(r.body)]
          /\ pc' = [pc EXCEPT ![w] = "ns_list"]
          /\ snapAtStart' = [snapAtStart EXCEPT ![w] =
                SnapView(tables, Key(NamespaceOf(q), TableOf(q)))]
          /\ UNCHANGED <<catalog, calls, ensured, result, response>>

\* POST /ingest: the query is extracted, the body decoded, and on success
\* write_to_table runs up to its first catalog call.
IngestData(w) ==
    /\ pc[w] = "idle"
    /\ \E r \in Requests :
       LET q == r.query IN
          /\ query' = [query EXCEPT ![w] = q]
          /\ body' = [body EXCEPT ![w] = r.body]
          /\ IF q.table_name = None
             THEN /\ response' = [response EXCEPT ![w] = QueryRejection]
                  /\ pc' = [pc EXCEPT ![w] = "done"]
                  /\ UNCHANGED <<decoded, snapAtStart>>
             ELSE LET dec == ProcessArrowBytes(r.body) IN
                  /\ decoded' = [decoded EXCEPT ![w] = dec]
                  /\ IF dec.ok
                     THEN /\ pc' = [pc EXCEPT ![w] = "ns_list"]
                          /\ snapAtStart' = [snapAtStart EXCEPT ![w] =
                                SnapView(tables, Key(NamespaceOf(q), TableOf(q)))]
                          /\ UNCHANGED response
                     ELSE /\ response' = [response EXCEPT ![w] =
                                IngestResponse(dec, NotWritten)]
                          /\ pc' = [pc EXCEPT ![w] = "done"]
                          /\ UNCHANGED snapAtStart
          /\ UNCHANGED <<catalog, calls, ensured, result>>

\* A variant that takes a failed send() for an empty namespace list.
EnsureNamespaceExists_List_IgnoreSendError(w) ==
    /\ pc[w] = "ns_list"
    /\ UNCHANGED <<catalog, query, body, decoded, snapAtStart>>
    /\ \/ Await(w, Append(calls[w], Call("list_namespaces", TRUE, 0, <<>>)),
                ensured[w], "ns_create")
       \/ LET cs == Append(calls[w], Call("list_namespaces", FALSE, 200, <<>>))
          IN  IF SplitDot(NamespaceOf(query[w])) \in Range(namespaces)
              THEN Await(w, cs, [ensured[w] EXCEPT !.ns = "Ok"], "tbl_head")
              ELSE Await(w, cs, ensured[w], "ns_create")

\* A variant that looks for the namespace string as one segment.
EnsureNamespaceExists_List_Unsplit(w) ==
    /\ pc[w] = "ns_list"
    /\ UNCHANGED <<catalog, query, body, decoded, snapAtStart>>
    /\ \/ Return(w, Append(calls[w], Call("list_namespaces", TRUE, 0, <<>>)),
                 [ns |-> "Err", table |-> "Err"], WriteErr)
       \/ Return(w, Append(calls[w], Call("list_namespaces", FALSE, 500, <<>>)),
                 [ns |-> "Err", table |-> "Err"], WriteErr)
       \/ LET cs == Append(calls[w], Call("list_namespaces", FALSE, 200, <<>>))
          IN  IF <<NamespaceOf(query[w])>> \in Range(namespaces)
              THEN Await(w, cs, [ensured[w] EXCEPT !.ns = "Ok"], "tbl_head")
              ELSE Await(w, cs, ensured[w], "ns_create")

\* ensure_namespace_exists: GET /v1/namespaces, parsed as NamespaceList.
EnsureNamespaceExists_List(w) ==
    /\ pc[w] = "ns_list"
    /\ UNCHANGED <<catalog, query, body, decoded, snapAtStart>>
    /\ \/ \* send() fails
          Return(w, Append(calls[w], Call("list_namespaces", TRUE, 0, <<>>)),
                 [ns |-> "Err", table |-> "Err"], WriteErr)
       \/ \* an error answer: its body is no NamespaceList, json() fails
          Return(w, Append(calls[w], Call("list_namespaces", FALSE, 500, <<>>)),
                 [ns |-> "Err", table |-> "Err"], WriteErr)
       \/ LET cs == Append(calls[w], Call("list_namespaces", FALSE, 200, <<>>))
              namespace_parts == SplitDot(NamespaceOf(query[w]))
          IN  IF namespace_parts \in Range(namespaces)
              THEN Await(w, cs, [ensured[w] EXCEPT !.ns = "Ok"], "tbl_head")
              ELSE Await(w, cs, ensured[w], "ns_create")

\* A variant that goes on to the table when the create could not be sent.
EnsureNamespaceExists_Create_GoOn(w) ==
    /\ pc[w] = "ns_create"
    /\ UNCHANGED <<tables, query, body, decoded, snapAtStart>>
    /\ LET create_request == [namespace |-> SplitDot(NamespaceOf(query[w])),
                              properties |-> {}]
           r == CatalogCreateNamespace(namespaces, create_request)
           sent(err, status) ==
               Append(calls[w], Call("create_namespace", err, status, create_request))
       IN  \/ /\ UNCHANGED namespaces
              /\ Await(w, sent(TRUE, 0), [ensured[w] EXCEPT !.ns = "Err"], "tbl_head")
           \/ /\ namespaces' = r.namespaces
              /\ Await(w, sent(FALSE, r.status), [ensured[w] EXCEPT !.ns = "Ok"],
                       "tbl_head")

\* A variant that treats a non-success answer to the create as an error.
EnsureNamespaceExists_Create_Strict(w) ==
    /\ pc[w] = "ns_create"
    /\ UNCHANGED <<tables, query, body, decoded, snapAtStart>>
    /\ LET create_request == [namespace |-> SplitDot(NamespaceOf(query[w])),
                              properties |-> {}]
           r == CatalogCreateNamespace(namespaces, create_request)
           cs == Append(calls[w],
                    Call("create_namespace", FALSE, r.status, create_request))
       IN  /\ namespaces' = r.namespaces
           /\ IF IsSuccess(r.status)
              THEN Await(w, cs, [ensured[w] EXCEPT !.ns = "Ok"], "tbl_head")
              ELSE Return(w, cs, [ns |-> "Err", table |-> "Err"], WriteErr)

\* ensure_namespace_exists: POST /v1/namespaces; the answer is not inspected.
EnsureNamespaceExists_Create(w) ==
    /\ pc[w] = "ns_create"
    /\ UNCHANGED <<tables, query, body, decoded, snapAtStart>>
    /\ LET create_request == [namespace |-> SplitDot(NamespaceOf(query[w])),
                              properties |-> {}]
           r == CatalogCreateNamespace(namespaces, create_request)
           sent(err, status) ==
               Append(calls[w], Call("create_namespace", err, status, create_request))
       IN  \/ \* send() fails, the request never arrived
              /\ UNCHANGED namespaces
              /\ Return(w, sent(TRUE, 0), [ns |-> "Err", table |-> "Err"], WriteErr)
           \/ \* send() fails, the answer was lost
              /\ namespaces' = r.namespaces
              /\ Return(w, sent(TRUE, 0), [ns |-> "Err", table |-> "Err"], WriteErr)
           \/ \* the catalog answers with a server error
              /\ UNCHANGED namespaces
              /\ Await(w, sent(FALSE, 500), [ensured[w] EXCEPT !.ns = "Ok"], "tbl_head")
           \/ /\ namespaces' = r.namespaces
              /\ Await(w, sent(FALSE, r.status), [ensured[w] EXCEPT !.ns = "Ok"],
                       "tbl_head")

\* A variant that goes on to the create whatever the existence check said.
EnsureTableExists_Head_AlwaysCreate(w) ==
    /\ pc[w] = "tbl_head"
    /\ UNCHANGED <<catalog, query, body, decoded, snapAtStart>>
    /\ LET status == CatalogHeadTable(tables, NamespaceOf(query[w]), TableOf(query[w]))
       IN  Await(w, Append(calls[w], TableCall("head_table", NamespaceOf(query[w]), FALSE, status, <<>>)),
                 ensured[w], "tbl_create")

\* ensure_table_exists: HEAD /v1/namespaces/{namespace}/tables/{table}.
EnsureTableExists_Head(w) ==
    /\ pc[w] = "tbl_head"
    /\ UNCHANGED <<catalog, query, body, decoded, snapAtStart>>
    /\ LET sent(err, status) ==
               Append(calls[w], TableCall("head_table", NamespaceOf(query[w]), err, status, <<>>))
           answer(status) ==
               IF IsSuccess(status)
               THEN Return(w, sent(FALSE, status),
                           [ensured[w] EXCEPT !.table = "Ok"], WriteOk(RowCount(w)))
               ELSE Await(w, sent(FALSE, status), ensured[w], "tbl_create")
       IN  \/ Return(w, sent(TRUE, 0), [ensured[w] EXCEPT !.table = "Err"], WriteErr)
           \/ answer(500)
           \/ answer(CatalogHeadTable(tables, NamespaceOf(query[w]), TableOf(query[w])))

\* A variant whose create call replaces a table that is already there.
EnsureTableExists_Create_Overwrite(w) ==
    /\ pc[w] = "tbl_create"
    /\ UNCHANGED <<namespaces, query, body, decoded, snapAtStart>>
    /\ LET ns == NamespaceOf(query[w])
           create_request ==
               CreateTableRequest(ns, TableOf(query[w]),
                   ConvertArrowSchemaToIceberg(decoded[w].batch.schema))
           sent(err, status) ==
               Append(calls[w],
                      TableCall("create_table", ns, err, status, create_request))
       IN  /\ tables' = (Key(ns, create_request.name) :>
                            TableMetadata(create_request, <<>>)) @@ tables
           /\ \/ Return(w, sent(TRUE, 0), [ensured[w] EXCEPT !.table = "Err"],
                        WriteErr)
              \/ Return(w, sent(FALSE, 200), [ensured[w] EXCEPT !.table = "Ok"],
                        WriteOk(RowCount(w)))

\* ensure_table_exists: POST /v1/namespaces/{namespace}/tables; the answer is
\* not inspected, and write_to_table returns the batch's row count.
EnsureTableExists_Create(w) ==
    /\ pc[w] = "tbl_create"
    /\ UNCHANGED <<namespaces, query, body, decoded, snapAtStart>>
    /\ LET ns == NamespaceOf(query[w])
           create_request ==
               CreateTableRequest(ns, TableOf(query[w]),
                   ConvertArrowSchemaToIceberg(decoded[w].batch.schema))
           r == CatalogCreateTable(namespaces, tables, ns, create_request)
           sent(err, status) ==
               Append(calls[w],
                      TableCall("create_table", ns, err, status, create_request))
       IN  \/ \* send() fails, the request never arrived
              /\ UNCHANGED tables
              /\ Return(w, sent(TRUE, 0), [ensured[w] EXCEPT !.table = "Err"], WriteErr)
           \/ \* send() fails, the answer was lost
              /\ tables' = r.tables
              /\ Return(w, sent(TRUE, 0), [ensured[w] EXCEPT !.table = "Err"], WriteErr)
           \/ \* the catalog answers with a server error
              /\ UNCHANGED tables
              /\ Return(w, sent(FALSE, 500), [ensured[w] EXCEPT !.table = "Ok"],
                        WriteOk(RowCount(w)))
           \/ \* the catalog honours stage-create: it answers, registers nothing
              /\ create_request.stage_create
              /\ UNCHANGED tables
              /\ Return(w, sent(FALSE, r.status), [ensured[w] EXCEPT !.table = "Ok"],
                        WriteOk(RowCount(w)))
           \/ /\ tables' = r.tables
              /\ Return(w, sent(FALSE, r.status), [ensured[w] EXCEPT !.table = "Ok"],
                        WriteOk(RowCount(w)))

Next ==
    /\ UNCHANGED fn
    /\ \E w \in Writers :
        \/ IngestData(w)
        \/ EnsureNamespaceExists_List(w)
        \/ EnsureNamespaceExists_Create(w)
        \/ EnsureTableExists_Head(w)
        \/ EnsureTableExists_Create(w)

Spec == Init /\ [][Next]_vars

\* Every catalog call returns (with an answer or with an error): a handler
\* that awaits one is resumed.
Resume(w) ==
    /\ UNCHANGED fn
    /\ \/ EnsureNamespaceExists_List(w)
       \/ EnsureNamespaceExists_Create(w)
       \/ EnsureTableExists_Head(w)
       \/ EnsureTableExists_Create(w)

\* The pipeline with every awaited catalog call returning.
SpecLive == Init /\ [][Next]_vars /\ \A w \in Writers : WF_vars(Resume(w))

\* ---------------------------------------- the pipeline and the reads
\* One request handler together with the client's read operations and the
\* health check, called at any moment.
ReadOk(value) == [ok |-> TRUE, value |-> value, error |-> <<>>]
ReadErr(error) == [ok |-> FALSE, value |-> <<>>, error |-> error]
Returned(op, arg, out) == [op |-> op, done |-> TRUE, arg |-> arg, out |-> out]

\* A call of the client that has returned, with the status the catalog
\* answered (None when send() failed).
Answered(op, arg, status, out) ==
    [op |-> op, done |-> TRUE, arg |-> arg, status |-> status, out |-> out]

\* Statuses outside 200..299 a catalog answers with.
FailureStatuses == {401, 404, 500}

\* What can come back for a request the catalog would answer with `answer`:
\* that answer, an error answer, or a success answer whose body is not the
\* JSON expected.
Responses(answer) ==
    {[status |-> answer.status, body |-> answer.body, json |-> TRUE]}
    \cup {[status |-> st, body |-> <<>>, json |-> FALSE] :
             st \in FailureStatuses \cup {200}}

\* A variant that parses the body whatever the status.
ReadResult_Unchecked(failure, reply) ==
    IF ~reply.json THEN ReadErr(<<"json">>) ELSE ReadOk(reply.body)

\* if !response.status().is_success() { return Err(..) }; response.json()?
ReadResult(failure, reply) ==
    IF ~IsSuccess(reply.status)
    THEN ReadErr(<<failure, reply.status>>)
    ELSE IF ~reply.json
    THEN ReadErr(<<"json">>)
    ELSE ReadOk(reply.body)

\* A read: a failed send(), or the answer checked and parsed.
Read(op, arg, failure, answer) ==
    /\ \/ fn' = Answered(op, arg, None, ReadErr(<<"send">>))
       \/ \E reply \in Responses(answer) :
             fn' = Answered(op, arg, Some(reply.status),
                            ReadResult(failure, reply))
    /\ UNCHANGED pipeline

\* A variant of get_table_metadata that clears the history it has read.
GetTableMetadata_Reset ==
    \E namespace \in {DefaultNamespace, NsAB} :
        LET answer == CatalogLoadTable(tables, namespace, TblT) IN
        /\ IsSuccess(answer.status)
        /\ fn' = Returned("get_table_metadata", <<namespace, TblT>>, ReadOk(answer.body))
        /\ tables' = [tables EXCEPT ![Key(namespace, TblT)] =
                         [@ EXCEPT !.snapshot_log = <<>>, !.current_snapshot_id = None]]
        /\ UNCHANGED <<namespaces, pc, query, body, decoded, calls, ensured,
                       result, response, snapAtStart>>

GetTableMetadata ==
    \E namespace \in {DefaultNamespace, NsAB} :
        Read("get_table_metadata", <<namespace, TblT>>, "Failed to get table metadata",
             CatalogLoadTable(tables, namespace, TblT))

ListTables ==
    \E namespace \in {DefaultNamespace, NsAB} :
        Read("list_tables", <<namespace>>, "Failed to list tables",
             CatalogListTables(namespaces, tables, namespace))

ListNamespaces ==
    Read("list_namespaces", <<>>, "Failed to list namespaces",
         CatalogListNamespaces(namespaces))

HealthCheck ==
    /\ fn' = Returned("health_check", <<>>,
                 [status |-> "healthy", service |-> "ingress-iceberg"])
    /\ UNCHANGED pipeline

FrameWriters == {"w1"}

NextFrame ==
    \/ /\ UNCHANGED fn
       /\ \E w \in FrameWriters :
            \/ IngestData(w)
            \/ EnsureNamespaceExists_List(w)
            \/ EnsureNamespaceExists_Create(w)
            \/ EnsureTableExists_Head(w)
            \/ EnsureTableExists_Create(w)
    \/ GetTableMetadata
    \/ ListTables
    \/ ListNamespaces
    \/ HealthCheck

SpecFrame == Init /\ [][NextFrame]_vars

\* ------------------------------------------------ the client alone
\* The catalog URL the service is started with.
BaseUrl == <<"http://localhost:8181">>

\* IcebergClient::new: GET {base_url}/v1/config; the handle is returned on
\* a success status, the body is not read.
New ==
    /\ \/ fn' = Answered("new", <<BaseUrl>>, None, ReadErr(<<"send">>))
       \/ \E status \in FailureStatuses \cup {200} :
             fn' = Answered("new", <<BaseUrl>>, Some(status),
                       IF ~IsSuccess(status)
                       THEN ReadErr(<<"Failed to connect to Iceberg REST catalog",
                                      status>>)
                       ELSE ReadOk([base_url |-> BaseUrl]))
    /\ UNCHANGED pipeline

\* A client constructed and its reads called while a request is handled.
NextClient ==
    \/ /\ UNCHANGED fn
       /\ \E w \in FrameWriters :
            \/ IngestData(w)
            \/ EnsureNamespaceExists_List(w)
            \/ EnsureNamespaceExists_Create(w)
            \/ EnsureTableExists_Head(w)
            \/ EnsureTableExists_Create(w)
    \/ New
    \/ GetTableMetadata
    \/ ListTables
    \/ ListNamespaces

SpecClient == Init /\ [][NextClient]_vars

\* ------------------------------------------------- the decoder alone
\* process_arrow_bytes called on its own, as the handler's unit tests do,
\* on streams of up to MaxBlocks blocks.
Blocks == {Block(TRUE, n) : n \in 0..MaxRows} \cup {Block(FALSE, 0)}
BlockSeqs == UNION {[1..k -> Blocks] : k \in 0..MaxBlocks}
Streams ==
    {Stream(h, bs) : h \in {None} \cup {Some(sc) : sc \in Schemas}, bs \in BlockSeqs}

EmptyCatalog == [namespaces |-> <<>>, tables |-> <<>>]

InitDecode ==
    /\ Started(EmptyCatalog)
    /\ fn \in {[op |-> "decode", done |-> FALSE, arg |-> st, out |-> NotDecoded] :
                  st \in Streams}

ApplyProcessArrowBytes ==
    /\ fn.op = "decode"
    /\ ~fn.done
    /\ fn' = [fn EXCEPT !.done = TRUE, !.out = ProcessArrowBytes(fn.arg)]
    /\ UNCHANGED pipeline

NextDecode == ApplyProcessArrowBytes

SpecDecode == InitDecode /\ [][NextDecode]_vars

\* ------------------------------------------- encoding and decoding
\* A batch written by the test utilities and read back by the decoder,
\* as bytes and as base64 text.
Values == {"v1", "v2", "v3"}
ValuesOf(field) == IF field.nullable THEN Values \cup {"null"} ELSE Values
ColumnsOf(schema, n) ==
    {cs \in [1..Len(schema) -> [1..n -> Values \cup {"null"}]] :
        \A i \in 1..Len(schema) : \A j \in 1..n : cs[i][j] \in ValuesOf(schema[i])}
RecordBatches(n) ==
    UNION {{RecordBatch(sc, n, cs) : cs \in ColumnsOf(sc, n)} : sc \in Schemas}

InitRoundTrip ==
    /\ Started(EmptyCatalog)
    /\ \E n \in 0..MaxRows :
          fn \in {[op |-> "encode", done |-> FALSE, arg |-> b, out |-> NotDecoded] :
                     b \in RecordBatches(n)}

RoundTripBytes ==
    /\ fn.op = "encode"
    /\ fn' = [fn EXCEPT !.op = "process_arrow_bytes", !.done = TRUE,
                        !.out = ProcessArrowBytes(RecordBatchToStream(fn.arg))]
    /\ UNCHANGED pipeline

RoundTripBase64 ==
    /\ fn.op = "encode"
    /\ fn' = [fn EXCEPT !.op = "process_arrow_data", !.done = TRUE,
                        !.out = ProcessArrowData(RecordBatchToBase64(fn.arg))]
    /\ UNCHANGED pipeline

NextRoundTrip == RoundTripBytes \/ RoundTripBase64

SpecRoundTrip == InitRoundTrip /\ [][NextRoundTrip]_vars

\* ------------------------------------------ the base64 entry point
\* process_arrow_data called on its own, as the handler's unit tests do: on
\* the base64 text of a stream, of bytes that are no stream, and on a text
\* that is no base64.
Base64Texts == {Base64(st) : st \in Streams} \cup {InvalidBase64}

InitBase64 ==
    /\ Started(EmptyCatalog)
    /\ fn \in {[op |-> "process_arrow_data", done |-> FALSE, arg |-> s,
                out |-> NotDecoded] : s \in Base64Texts}

ApplyProcessArrowData ==
    /\ fn.op = "process_arrow_data"
    /\ ~fn.done
    /\ fn' = [fn EXCEPT !.done = TRUE, !.out = ProcessArrowData(fn.arg)]
    /\ UNCHANGED pipeline

NextBase64 == ApplyProcessArrowData

SpecBase64 == InitBase64 /\ [][NextBase64]_vars

\* ------------------------------------------- the schema mapper alone
\* convert_arrow_schema_to_iceberg called on its own, against a catalog
\* that may already hold a table with a schema.  The schemas have up to
\* MaxCols columns: one column of any type, the others of a recognised or
\* of a nested type.
DataTypes ==
    {"Int8", "Int16", "Int32", "Int64", "UInt8", "UInt16", "UInt32", "UInt64",
     "Float32", "Float64", "Utf8", "LargeUtf8", "Boolean", "Date32", "Date64",
     "Binary", "LargeBinary", "Struct", "List", "Null"} \cup Timestamps
ColumnNames == {"id", "name"}
Columns ==
    {Field(n, t, b) : n \in ColumnNames, t \in DataTypes, b \in BOOLEAN}
PlainColumns ==
    {Field(n, t, b) : n \in ColumnNames, t \in {"Int32", "Struct"}, b \in BOOLEAN}
\* The schemas of k columns.
ArrowSchemas(k) ==
    IF k = 0 THEN {<<>>}
    ELSE {[sc EXCEPT ![i] = c] :
             sc \in [1..k -> PlainColumns], i \in 1..k, c \in Columns}

InitMapper ==
    /\ \E c \in InitCatalogs : Started(c)
    /\ \E k \in 0..MaxCols :
          fn \in {[op |-> "map", done |-> FALSE, arg |-> sc, out |-> <<>>] :
                     sc \in ArrowSchemas(k)}

ApplyConvertArrowSchemaToIceberg ==
    /\ fn.op = "map"
    /\ ~fn.done
    /\ fn' = [fn EXCEPT !.done = TRUE,
                        !.out = ConvertArrowSchemaToIceberg(fn.arg)]
    /\ UNCHANGED pipeline

NextMapper == ApplyConvertArrowSchemaToIceberg

SpecMapper == InitMapper /\ [][NextMapper]_vars

\* ------------------------------------------------------------- claims
Done(w) == pc[w] = "done"
Handled(w) == pc[w] # "idle" /\ query[w].table_name # None
WriteSucceeded(w) == Done(w) /\ result[w].done /\ result[w].ok
WriteFailed(w) == Done(w) /\ result[w].done /\ ~result[w].ok
CallsOf(w, ops) == SelectSeq(calls[w], LAMBDA c : c.op \in ops)
Last(s) == s[Len(s)]
Count(s, x) == Cardinality({i \in 1..Len(s) : s[i] = x})
Min(a, b) == IF a <= b THEN a ELSE b

\* C1: every write that returns success has committed exactly one new
\* snapshot: the table's snapshot log is one entry longer than when the write
\* began, current-snapshot-id is that new entry, and the value returned is
\* the batch's row count.
C1_SuccessCommitsOneSnapshot ==
    \A w \in Writers :
        WriteSucceeded(w) =>
            LET now == SnapView(tables, KeyOf(w))
                before == snapAtStart[w]
            IN  /\ Len(now.snapshot_log) = Len(before.snapshot_log) + 1
                /\ now.current_snapshot_id =
                      Some(Last(now.snapshot_log).snapshot_id)
                /\ result[w].rows = RowCount(w)

\* C2: two writes that raced on the same table (both began from the same
\* table history) and both returned success have each committed: the log
\* holds both entries, none overwritten or lost.
C2_RacingCommitsBothKept ==
    \A w1, w2 \in Writers :
        (/\ w1 # w2
         /\ WriteSucceeded(w1) /\ WriteSucceeded(w2)
         /\ KeyOf(w1) = KeyOf(w2)
         /\ snapAtStart[w1] = snapAtStart[w2])
        => Len(SnapView(tables, KeyOf(w1)).snapshot_log)
              >= Len(snapAtStart[w1].snapshot_log) + 2

\* C3: for every table, current-snapshot-id is absent exactly when the table
\* has never been written to (an empty log and no successful ingest), and
\* otherwise is the last entry of the snapshot log.
C3_CurrentSnapshotTracksWrites ==
    \A k \in DOMAIN tables :
        LET m == tables[k]
            written == \/ m.snapshot_log # <<>>
                       \/ \E w \in Writers : WriteSucceeded(w) /\ KeyOf(w) = k
        IN  /\ (m.current_snapshot_id = None) <=> ~written
            /\ m.snapshot_log # <<>> =>
                  m.current_snapshot_id = Some(Last(m.snapshot_log).snapshot_id)

\* C4: a write that returned an error has left the table's snapshot log and
\* current-snapshot-id as they were when it began.
C4_FailedWriteLeavesHistory ==
    \A w \in Writers :
        WriteFailed(w) => SnapView(tables, KeyOf(w)) = snapAtStart[w]

\* C4 witness: a write failed at the create-table call of a table that has a
\* snapshot history.
C4_Witness ==
    \E w \in Writers :
        /\ WriteFailed(w)
        /\ Last(calls[w]).op = "create_table"
        /\ SnapView(tables, KeyOf(w)).snapshot_log # <<>>

\* C5: a request whose body failed to decode has issued no catalog call and
\* is finished, so it never issues one.
C5_DecodeFailureIssuesNoCall ==
    \A w \in Writers :
        (Handled(w) /\ ~decoded[w].ok) => (calls[w] = <<>> /\ Done(w))

\* C5 witness: a request with broken framing is finished while the other
\* request is talking to the catalog.
C5_Witness ==
    \E w, v \in Writers :
        /\ Handled(w) /\ ~decoded[w].ok
        /\ decoded[w].error = "Failed to create Arrow stream reader"
        /\ calls[v] # <<>>

\* C6: a finished request is answered BAD_REQUEST when decoding failed,
\* INTERNAL_SERVER_ERROR when decoding succeeded and the write failed, and OK
\* with the row count exactly when both succeeded.
C6_ResponseTellsFaultsApart ==
    \A w \in Writers :
        (Done(w) /\ Handled(w)) =>
            /\ ~decoded[w].ok => response[w].status = "BAD_REQUEST"
            /\ (decoded[w].ok /\ ~result[w].ok) =>
                  response[w].status = "INTERNAL_SERVER_ERROR"
            /\ (response[w].status = "OK") <=> (decoded[w].ok /\ result[w].ok)
            /\ response[w].status = "OK" =>
                  /\ response[w].success
                  /\ response[w].records_ingested = Some(RowCount(w))

\* C6 witness: one request answered with a client error, another with a
\* server error.
C6_Witness ==
    \E w, v \in Writers :
        /\ Done(w) /\ Handled(w) /\ ~decoded[w].ok
        /\ response[w].status = "BAD_REQUEST"
        /\ WriteFailed(v) /\ response[v].status = "INTERNAL_SERVER_ERROR"

NsCalls(w) == CallsOf(w, {"list_namespaces", "create_namespace"})
NsFaultFree(w) ==
    \A i \in 1..Len(NsCalls(w)) :
        ~NsCalls(w)[i].err /\ NsCalls(w)[i].status \in {200, 409}

\* C7: an ensure_namespace that has returned, and whose catalog calls were
\* all answered (with success, or with the conflict of a namespace that is
\* already there), returned success, and the catalog lists the namespace
\* exactly once.
C7_EnsureNamespaceIdempotent ==
    \A w \in Writers :
        (ensured[w].ns # "none" /\ NsFaultFree(w)) =>
            /\ ensured[w].ns = "Ok"
            /\ Count(namespaces, SplitDot(NamespaceOf(query[w]))) = 1

\* C7 witness: two concurrent callers both saw the namespace absent and both
\* issued the create; one was answered with a conflict; both returned success.
C7_Witness ==
    \E w, v \in Writers :
        /\ w # v
        /\ NamespaceOf(query[w]) = NamespaceOf(query[v])
        /\ ensured[w].ns = "Ok" /\ ensured[v].ns = "Ok"
        /\ Len(NsCalls(w)) = 2 /\ NsCalls(w)[2].status = 200
        /\ Len(NsCalls(v)) = 2 /\ NsCalls(v)[2].status = 409

HeadFound(w) ==
    /\ calls[w] # <<>>
    /\ Last(calls[w]).op = "head_table"
    /\ ~Last(calls[w]).err
    /\ IsSuccess(Last(calls[w]).status)

\* C8: the step in which the existence check finds the table present ends
\* ensure_table with success, issues no create-table call, and leaves every
\* table's metadata as it was.
C8_ExistingTableLeftAlone ==
    [][\A w \in Writers :
          (~HeadFound(w) /\ HeadFound(w)') =>
              /\ tables' = tables
              /\ ensured'[w].table = "Ok"
              /\ pc'[w] = "done"
              /\ CallsOf(w, {"create_table"})' = <<>>]_vars

\* C8 witness: the check found a table whose schema differs from the one
\* derived from the batch.
C8_Witness ==
    \E w \in Writers :
        /\ HeadFound(w)
        /\ ensured[w].table = "Ok"
        /\ tables[KeyOf(w)].schema #
              ConvertArrowSchemaToIceberg(decoded[w].batch.schema)

HeadAbsent(w) ==
    \E i \in 1..Len(calls[w]) :
        /\ calls[w][i].op = "head_table"
        /\ ~calls[w][i].err
        /\ ~IsSuccess(calls[w][i].status)

CreateCalls(w) == CallsOf(w, {"create_table"})

\* The create-table call of a finished ensure_table: exactly one when the
\* check found the table absent, none otherwise, carrying this batch's
\* schema, no partition field and the two default write properties.
CreateCallWellFormed(w) ==
    /\ Len(CreateCalls(w)) = IF HeadAbsent(w) THEN 1 ELSE 0
    /\ \A i \in 1..Len(CreateCalls(w)) :
          LET req == CreateCalls(w)[i].body IN
          /\ req.name = TableOf(query[w])
          /\ req.schema.fields =
                [j \in 1..Len(decoded[w].batch.schema) |->
                    [id |-> j,
                     name |-> decoded[w].batch.schema[j].name,
                     required |-> ~decoded[w].batch.schema[j].nullable,
                     field_type |-> req.schema.fields[j].field_type]]
          /\ req.partition_spec = <<>>
          /\ req.properties =
                {<<"write.format.default", "parquet">>,
                 <<"write.metadata.metrics.default", "truncate(16)">>}

SameTarget(w1, w2) ==
    /\ NamespaceOf(query[w1]) = NamespaceOf(query[w2])
    /\ TableOf(query[w1]) = TableOf(query[w2])

CreateLocation(w) == CreateCalls(w)[1].body.location

\* C9 as claimed: the create call is well formed and its location determines
\* the (namespace, table name) pair: equal pairs give equal locations and
\* distinct pairs give distinct locations.
C9_LocationIdentifiesTable ==
    /\ \A w \in Writers : Done(w) /\ Handled(w) => CreateCallWellFormed(w)
    /\ \A w1, w2 \in Writers :
          (CreateCalls(w1) # <<>> /\ CreateCalls(w2) # <<>>) =>
              (CreateLocation(w1) = CreateLocation(w2) <=> SameTarget(w1, w2))

\* C9 as amended: the create call is well formed, equal pairs give equal
\* locations, and distinct pairs whose namespaces hold no '/' give distinct
\* locations.
C9_LocationIdentifiesTableNoSlash ==
    /\ \A w \in Writers : Done(w) /\ Handled(w) => CreateCallWellFormed(w)
    /\ \A w1, w2 \in Writers :
          (CreateCalls(w1) # <<>> /\ CreateCalls(w2) # <<>>) =>
              /\ SameTarget(w1, w2) => CreateLocation(w1) = CreateLocation(w2)
              /\ (/\ CreateLocation(w1) = CreateLocation(w2)
                  /\ "/" \notin Range(NamespaceOf(query[w1]))
                  /\ "/" \notin Range(NamespaceOf(query[w2])))
                 => SameTarget(w1, w2)

\* C9 witness: two requests for different tables, with different batches,
\* have each issued their one create-table call.
C9_Witness ==
    \E w1, w2 \in Writers :
        /\ Done(w1) /\ Done(w2)
        /\ HeadAbsent(w1) /\ HeadAbsent(w2)
        /\ Len(CreateCalls(w1)) = 1 /\ Len(CreateCalls(w2)) = 1
        /\ ~SameTarget(w1, w2)
        /\ decoded[w1].batch.schema # decoded[w2].batch.schema

\* C10: whenever ensure_table has returned success, the table is in the
\* catalog.
C10_EnsuredTableExists ==
    \A w \in Writers :
        ensured[w].table = "Ok" => KeyOf(w) \in DOMAIN tables

AnsweredWithFailure(c) ==
    ~c.err /\ ~IsSuccess(c.status) /\ c.status # 409

\* C11: once the catalog has answered the list-namespaces, create-namespace
\* or create-table call with a non-success status that is no conflict, the
\* operation that issued it (ensure_namespace, ensure_table) does not report
\* success.
C11_FailureStatusIsAnError ==
    \A w \in Writers :
        /\ (\E i \in 1..Len(NsCalls(w)) : AnsweredWithFailure(NsCalls(w)[i]))
              => ensured[w].ns # "Ok"
        /\ (\E i \in 1..Len(CreateCalls(w)) : AnsweredWithFailure(CreateCalls(w)[i]))
              => ensured[w].table # "Ok"

\* C12: a catalog call whose send() failed is the last call of its request:
\* the request is finished, ensure_table and the write returned an error,
\* no row count is reported and the answer is INTERNAL_SERVER_ERROR.
C12_TransportFailureAborts ==
    \A w \in Writers :
        \A i \in 1..Len(calls[w]) :
            calls[w][i].err =>
                /\ i = Len(calls[w])
                /\ Done(w)
                /\ ensured[w].table = "Err"
                /\ result[w] = WriteErr
                /\ response[w].status = "INTERNAL_SERVER_ERROR"
                /\ response[w].records_ingested = None

\* C12 witness: a request stopped at the failed send() of its existence check
\* while the other request went on to its create-table call.
C12_Witness ==
    \E w, v \in Writers :
        /\ Len(calls[w]) >= 2
        /\ Last(calls[w]).op = "head_table" /\ Last(calls[w]).err
        /\ response[w].status = "INTERNAL_SERVER_ERROR"
        /\ CreateCalls(v) # <<>>

\* C13: a successful ingest of a zero-row batch into a table that is in the
\* catalog is answered OK with rows_ingested = 0 and has committed a snapshot:
\* the table's log is longer than when the write began and current-snapshot-id
\* is set.
C13_ZeroRowIngestCommits ==
    \A w \in Writers :
        (/\ WriteSucceeded(w)
         /\ decoded[w].batch.num_rows = 0
         /\ KeyOf(w) \in DOMAIN tables)
        => /\ response[w].status = "OK"
           /\ response[w].records_ingested = Some(0)
           /\ Len(tables[KeyOf(w)].snapshot_log) > Len(snapAtStart[w].snapshot_log)
           /\ tables[KeyOf(w)].current_snapshot_id # None

\* C14: the row count of every OK answer, and of every successful write, is
\* the number of rows of the batch decoded from that request's body.
C14_RowCountIsBatchRows ==
    \A w \in Writers :
        /\ WriteSucceeded(w) => result[w].rows = decoded[w].batch.num_rows
        /\ response[w].status = "OK" =>
              response[w].records_ingested = Some(decoded[w].batch.num_rows)

\* C14 witness: two ingests into the same table, one of no row and one of
\* MaxRows rows, into a table that has a snapshot history, are both answered.
C14_Witness ==
    \E w, v \in Writers :
        /\ response[w].status = "OK" /\ response[w].records_ingested = Some(0)
        /\ response[v].status = "OK" /\ response[v].records_ingested = Some(MaxRows)
        /\ KeyOf(w) = KeyOf(v)
        /\ SnapView(tables, KeyOf(w)).snapshot_log # <<>>

Decoded == fn.op = "decode" /\ fn.done
SchemaOnly(st) == st.header # None /\ st.blocks = <<>>

\* C15: a stream that holds a schema header and no block never decodes to a
\* batch: it fails with the error "No record batch found in Arrow stream",
\* which no stream with broken framing or an unreadable block fails with.
C15_SchemaOnlyStreamIsEmptyError ==
    Decoded =>
        /\ SchemaOnly(fn.arg) =>
              /\ ~fn.out.ok
              /\ fn.out.batch = NoBatch
              /\ fn.out.error = "No record batch found in Arrow stream"
        /\ (~SchemaOnly(fn.arg) /\ ~fn.out.ok) =>
              fn.out.error \in {"Failed to create Arrow stream reader",
                                "Failed to read Arrow record batch"}

\* C15 witness: a schema-only stream has been decoded.
C15_Witness ==
    Decoded /\ SchemaOnly(fn.arg) /\ fn.arg.header = Some(SchemaB)

\* C16: for a well-framed stream of k >= 1 blocks the decoder returns block
\* 1 under the header's schema, or the read error of block 1; blocks 2..k
\* change neither.
C16_FirstBlockOnly ==
    (Decoded /\ fn.arg.header # None /\ Len(fn.arg.blocks) >= 1) =>
        IF fn.arg.blocks[1].ok
        THEN /\ fn.out.ok
             /\ fn.out.batch.schema = fn.arg.header[1]
             /\ fn.out.batch.num_rows = fn.arg.blocks[1].num_rows
        ELSE /\ ~fn.out.ok
             /\ fn.out.error = "Failed to read Arrow record batch"

\* C16 witness: a stream whose first block has no row, whose second has
\* MaxRows rows and whose third is unreadable has decoded to a batch.
C16_Witness ==
    /\ Decoded
    /\ fn.out.ok
    /\ Len(fn.arg.blocks) = 3
    /\ fn.arg.blocks[1] = Block(TRUE, 0)
    /\ fn.arg.blocks[2] = Block(TRUE, MaxRows)
    /\ ~fn.arg.blocks[3].ok

Mapped == fn.op = "map" /\ fn.done

\* C17: a schema of n columns maps to n fields in column order; field i has
\* id i and the name of column i, whatever schema a table of the catalog
\* already has.
C17_IdsFollowColumnPosition ==
    Mapped =>
        /\ Len(fn.out.fields) = Len(fn.arg)
        /\ \A i \in 1..Len(fn.arg) :
              /\ fn.out.fields[i].id = i
              /\ fn.out.fields[i].name = fn.arg[i].name

\* C17 witness: a schema of MaxCols columns named name, id, ... has been
\* mapped while the catalog holds a table created with another schema.
C17_Witness ==
    /\ Mapped
    /\ Len(fn.arg) = MaxCols
    /\ fn.arg[1].name = "name"
    /\ fn.arg[2].name = "id"
    /\ fn.arg # SchemaA
    /\ DOMAIN tables # {}

\* The mapping table as the specification gives it.
MappingTable(data_type) ==
    CASE data_type \in {"Int8", "Int16", "Int32", "UInt8", "UInt16", "UInt32"} -> "int"
      [] data_type \in {"Int64", "UInt64"} -> "long"
      [] data_type = "Float32" -> "float"
      [] data_type = "Float64" -> "double"
      [] data_type \in {"Utf8", "LargeUtf8"} -> "string"
      [] data_type \in {"Binary", "LargeBinary"} -> "binary"
      [] data_type = "Boolean" -> "boolean"
      [] data_type \in {"Date32", "Date64"} -> "date"
      [] data_type \in Timestamps -> "timestamp"
SupportedTypes ==
    {"Int8", "Int16", "Int32", "Int64", "UInt8", "UInt16", "UInt32", "UInt64",
     "Float32", "Float64", "Utf8", "LargeUtf8", "Binary", "LargeBinary",
     "Boolean", "Date32", "Date64"} \cup Timestamps

\* C18: every column of a supported type is given the target type of the
\* mapping table (binary and large-binary to binary, date64 to date, ...).
C18_TypeMappingEqualsTable ==
    Mapped =>
        \A i \in 1..Len(fn.arg) :
            fn.arg[i].data_type \in SupportedTypes =>
                fn.out.fields[i].field_type = MappingTable(fn.arg[i].data_type)

\* C19: the mapper returns a struct schema with one field per column for
\* every schema, and a column whose type is outside the mapping table
\* (nested, unrecognised) is given the type string.
C19_MapperIsTotal ==
    Mapped =>
        /\ fn.out.schema_type = "struct"
        /\ Len(fn.out.fields) = Len(fn.arg)
        /\ \A i \in 1..Len(fn.arg) :
              fn.arg[i].data_type \notin SupportedTypes =>
                  fn.out.fields[i].field_type = "string"

\* C19 witness: a schema with a list column and a struct column has been
\* mapped and both came out as string.
C19_Witness ==
    /\ Mapped
    /\ Len(fn.arg) = 2
    /\ fn.arg[1].data_type = "List"
    /\ fn.arg[2].data_type = "Struct"
    /\ fn.out.fields[1].field_type = "string"
    /\ fn.out.fields[2].field_type = "string"

\* C20: a target field is required exactly when its column is not nullable
\* (and optional exactly when it is).
C20_NullabilityPassesThrough ==
    Mapped =>
        \A i \in 1..Len(fn.arg) :
            fn.out.fields[i].required <=> ~fn.arg[i].nullable

\* C20 witness: a schema with a nullable first and a non-nullable second
\* column has been mapped to an optional and a required field.
C20_Witness ==
    /\ Mapped
    /\ Len(fn.arg) = 2
    /\ fn.arg[1].nullable
    /\ ~fn.arg[2].nullable
    /\ ~fn.out.fields[1].required
    /\ fn.out.fields[2].required

CommitCalls(w) == CallsOf(w, {"commit_table"})
Raced(w, v) ==
    /\ w # v
    /\ Done(w) /\ result[w].done
    /\ Done(v) /\ result[v].done
    /\ KeyOf(w) = KeyOf(v)
    /\ snapAtStart[w] = snapAtStart[v]

\* C21: a write that raced with another write of the same table has gone
\* through the commit step (at least one commit call, retried on conflict),
\* and has ended either with its snapshot in the log or, its retries
\* exhausted, in a failure that left the log as it was.
C21_ConflictRetriesCommit ==
    \A w, v \in Writers :
        Raced(w, v) =>
            /\ CommitCalls(w) # <<>>
            /\ IF result[w].ok
               THEN Len(SnapView(tables, KeyOf(w)).snapshot_log)
                       > Len(snapAtStart[w].snapshot_log)
               ELSE /\ response[w].status = "INTERNAL_SERVER_ERROR"
                    /\ \/ SnapView(tables, KeyOf(w)) = snapAtStart[w]
                       \/ result[v].ok

NoTableName(q) == q.table_name = None \/ q.table_name = Some(<<>>)

\* C22: a request whose table name is missing or empty is answered
\* BAD_REQUEST at once: the decoder has not run for it and it has issued no
\* catalog call.
C22_NoTableNameIsRejected ==
    \A w \in Writers :
        (pc[w] # "idle" /\ NoTableName(query[w])) =>
            /\ Done(w)
            /\ response[w].status = "BAD_REQUEST"
            /\ decoded[w] = NotDecoded
            /\ calls[w] = <<>>

\* The namespace a request asks for: "default" when it names none.
Requested(w) ==
    IF query[w].namespace = None
    THEN <<"d", "e", "f", "a", "u", "l", "t">>
    ELSE query[w].namespace[1]

\* C23: every catalog call of a request addresses the requested namespace,
\* "default" when the request gives none: the table calls carry it in their
\* path, the create-namespace call carries its segments, and the table
\* location is built from it.
C23_DefaultNamespace ==
    \A w \in Writers :
        \A i \in 1..Len(calls[w]) :
            LET c == calls[w][i] IN
            /\ c.op \in {"head_table", "create_table"} =>
                  c.url_namespace = Some(Requested(w))
            /\ c.op = "create_namespace" =>
                  c.body.namespace = SplitDot(Requested(w))
            /\ c.op = "create_table" =>
                  c.body.location =
                     LocationPrefix \o Requested(w) \o <<"/">> \o c.body.name

\* C23 witness: a request without namespace has created namespace default
\* and checked a table in it, and a request for namespace a.b has sent a
\* create-table call.
C23_Witness ==
    \E w, v \in Writers :
        /\ query[w].namespace = None
        /\ \E i \in 1..Len(calls[w]) : calls[w][i].op = "create_namespace"
        /\ \E i \in 1..Len(calls[w]) : calls[w][i].op = "head_table"
        /\ query[v].namespace = Some(NsAB)
        /\ \E i \in 1..Len(calls[v]) : calls[v][i].op = "create_table"

NsCreateCalls(w) == CallsOf(w, {"create_namespace"})

\* C24: after a namespace list has been received, ensure_namespace goes on
\* to the create-namespace call exactly when the requested namespace, split
\* on '.', is not in the list; the create call carries those segments and
\* no property; when the namespace is listed the catalog is left alone and
\* no create-namespace call follows.
C24_CreateNamespaceIffUnlisted ==
    [][\A w \in Writers :
          LET namespace_parts == SplitDot(Requested(w))
              listed == namespace_parts \in Range(namespaces)
          IN  /\ (/\ pc[w] = "ns_list" /\ pc'[w] # "ns_list"
                  /\ ~Last(calls'[w]).err /\ Last(calls'[w]).status = 200)
                 => /\ (pc'[w] = "ns_create") <=> ~listed
                    /\ listed => (pc'[w] = "tbl_head" /\ catalog' = catalog)
              /\ (pc[w] = "ns_create" /\ pc'[w] # "ns_create")
                 => /\ Len(NsCreateCalls(w)') = 1
                    /\ Last(calls'[w]).op = "create_namespace"
                    /\ Last(calls'[w]).body =
                          [namespace |-> namespace_parts, properties |-> {}]
              /\ pc[w] # "ns_create" => NsCreateCalls(w)' = NsCreateCalls(w)
      ]_vars

\* C24 witness: a request for namespace a.b found it listed and went on to
\* the table without a create-namespace call, after another request had
\* created it with segments a, b.
C24_Witness ==
    \E w, v \in Writers :
        /\ query[w].namespace = Some(NsAB)
        /\ ensured[w].ns = "Ok"
        /\ NsCreateCalls(w) = <<>>
        /\ NsCreateCalls(v) # <<>>
        /\ NsCreateCalls(v)[1].body = [namespace |-> <<<<"a">>, <<"b">>>>, properties |-> {}]

TableCalls(w) == CallsOf(w, {"head_table", "create_table"})
IsTableCall(c) == c.op \in {"head_table", "create_table"}

\* C25: a request issues a table call (existence check or create) only
\* after its ensure_namespace has returned success and made all its calls;
\* a request whose ensure_namespace failed has issued no table call, and
\* its ensure_table has failed.
C25_NamespaceBeforeTable ==
    \A w \in Writers :
        /\ TableCalls(w) # <<>> =>
              /\ ensured[w].ns = "Ok"
              /\ \A i, j \in 1..Len(calls[w]) :
                    (IsTableCall(calls[w][i]) /\ ~IsTableCall(calls[w][j])) => j < i
        /\ pc[w] \in {"tbl_head", "tbl_create"} => ensured[w].ns = "Ok"
        /\ ensured[w].ns = "Err" =>
              /\ TableCalls(w) = <<>>
              /\ ensured[w].table = "Err"
              /\ WriteFailed(w)

\* C25 witness: one request stopped at a create-namespace call that could
\* not be sent, the other created its namespace and then its table.
C25_Witness ==
    \E w, v \in Writers :
        /\ ensured[w].ns = "Err"
        /\ Last(calls[w]).op = "create_namespace"
        /\ Len(calls[v]) = 4
        /\ calls[v][2].op = "create_namespace"
        /\ calls[v][4].op = "create_table"

HeadNotFound(w) ==
    \E i \in 1..Len(calls[w]) :
        calls[w][i].op = "head_table" /\ ~calls[w][i].err /\ calls[w][i].status = 404

CreateAnswered(w) ==
    /\ Len(CreateCalls(w)) = 1
    /\ ~CreateCalls(w)[1].err
    /\ CreateCalls(w)[1].status \in {200, 409}

\* C26: two requests that both found the same table absent and both had
\* their create-table call answered (created, or conflict) have both
\* returned success from ensure_table, and the table is in the catalog
\* (once: the catalog holds one table per identifier).
C26_RacingEnsureLeavesOneTable ==
    \A w, v \in Writers :
        (/\ w # v
         /\ HeadNotFound(w) /\ HeadNotFound(v)
         /\ CreateAnswered(w) /\ CreateAnswered(v)
         /\ SameTarget(w, v))
        => /\ ensured[w].table = "Ok" /\ ensured[v].table = "Ok"
           /\ Cardinality({k \in DOMAIN tables : k = KeyOf(w)}) = 1

\* C27: no step of the handler (decoder, schema mapper, ensure_namespace,
\* ensure_table), of get_table_metadata, list_tables, list_namespaces or of
\* the health check changes the metadata of a table that exists: the table
\* stays, with the same schema, snapshot log and current-snapshot-id.
C27_ExistingMetadataUnchanged ==
    [][\A k \in DOMAIN tables : k \in DOMAIN tables' /\ tables'[k] = tables[k]]_vars

\* C27 witness: get_table_metadata has returned the metadata of a table
\* with a snapshot history after a handler sent a create-table call for
\* that table and got a conflict.
C27_Witness ==
    /\ fn.op = "get_table_metadata"
    /\ fn.out.ok
    /\ fn.out.value.snapshot_log # <<>>
    /\ fn.out.value = tables[Key(fn.arg[1], fn.arg[2])]
    /\ \E w \in Writers :
          /\ CreateCalls(w) # <<>>
          /\ CreateCalls(w)[1].status = 409
          /\ KeyOf(w) = Key(fn.arg[1], fn.arg[2])

Discriminated(a) ==
    \/ /\ a.status = "OK"
       /\ a.success
       /\ a.records_ingested # None
    \/ /\ a.status \in {"BAD_REQUEST", "INTERNAL_SERVER_ERROR"}
       /\ ~a.success
       /\ a.records_ingested = None

\* C28: a request has no answer until it is finished; its answer is then
\* one discriminated result (success with a row count, or a failure of one
\* of two kinds) that never changes; and, every catalog call returning, a
\* request that has arrived is eventually finished.
C28_OneResultEventually ==
    /\ [](\A w \in Writers :
            IF Done(w) THEN Discriminated(response[w])
            ELSE response[w] = NoResponse)
    /\ [][\A w \in Writers :
            Done(w) => (Done(w)' /\ response'[w] = response[w])]_vars
    /\ \A w \in Writers : (pc[w] # "idle") ~> Done(w)

\* C28 witness: one request was answered OK after four catalog calls, the
\* other INTERNAL_SERVER_ERROR after a create-table call that failed to send.
C28_Witness ==
    \E w, v \in Writers :
        /\ Done(w) /\ response[w].status = "OK" /\ Len(calls[w]) = 4
        /\ Done(v) /\ response[v].status = "INTERNAL_SERVER_ERROR"
        /\ Last(calls[v]).op = "create_table" /\ Last(calls[v]).err

RoundTripped == fn.op \in {"process_arrow_bytes", "process_arrow_data"} /\ fn.done

IsJson(b) == "json" \in DOMAIN b

\* C30: a POST /ingest whose JSON body carries a non-empty table_name, a
\* namespace and a valid base64 Arrow stream is answered OK or
\* INTERNAL_SERVER_ERROR, and when OK with success and the row count of the
\* batch in data.
C30_JsonIngestIsNoClientError ==
    \A w \in Writers :
        (Done(w) /\ IsJson(body[w])) =>
            /\ response[w].status \in {"OK", "INTERNAL_SERVER_ERROR"}
            /\ response[w].status = "OK" =>
                  /\ response[w].success
                  /\ response[w].records_ingested =
                        Some(ProcessArrowData(body[w].json.data).batch.num_rows)

\* C31: when the existence check of ensure_table is made on a table that is
\* in the catalog, the request does not go on to a create-table call,
\* whatever status the check returned: it never awaits a create-table call
\* after such a check, and a create-table call is sent only after a check.
C31_CreateOnlyWhenAbsent ==
    [][\A w \in Writers :
          /\ (pc[w] = "tbl_head" /\ KeyOf(w) \in DOMAIN tables)
                => pc'[w] # "tbl_create"
          /\ Len(CreateCalls(w))' > Len(CreateCalls(w))
                => /\ pc[w] = "tbl_create"
                   /\ Last(calls[w]).op = "head_table"]_vars

\* The namespace identifier a table call addresses: the {namespace}
\* parameter of its request path, as the catalog reads it.
AddressedNamespace(c) == PathNamespace(c.url_namespace[1])

\* C32: within one ensure_table, the namespace identifier that
\* ensure_namespace looks up in the listing and sends in its create call is
\* the namespace identifier under which the existence check and the
\* create-table call are addressed, segment for segment.
C32_OneNamespaceIdentifier ==
    \A w \in Writers :
        LET namespace_parts == SplitDot(NamespaceOf(query[w])) IN
        \A i \in 1..Len(calls[w]) :
            /\ calls[w][i].op = "create_namespace"
                  => calls[w][i].body.namespace = namespace_parts
            /\ IsTableCall(calls[w][i])
                  => AddressedNamespace(calls[w][i]) = namespace_parts

Base64Decoded == fn.op = "process_arrow_data" /\ fn.done

\* C33: process_arrow_data on a text that is no base64 fails with the
\* base64 error, whatever bytes the text might stand for; on a base64 text
\* it returns what process_arrow_bytes returns on the decoded bytes, the
\* same batch or the same error.
C33_Base64ThenBytes ==
    Base64Decoded =>
        IF fn.arg.valid
        THEN fn.out = ProcessArrowBytes(fn.arg.bytes)
        ELSE fn.out = DecodeErr("Failed to decode base64 data")

\* C33 witness: a text that is no base64 was refused with the base64 error.
C33_Witness ==
    /\ Base64Decoded
    /\ ~fn.arg.valid
    /\ fn.out.error = "Failed to decode base64 data"

ClientOps == {"new", "get_table_metadata", "list_tables", "list_namespaces"}
ClientReturned == fn.op \in ClientOps /\ fn.done

\* C34: get_table_metadata, list_tables, list_namespaces and the
\* constructor's probe of /v1/config return an error whenever the catalog
\* answered with a status outside 200..299, and return a value (metadata,
\* identifiers, namespaces, the client) only after a success status.
C34_ValueOnlyAfterSuccess ==
    ClientReturned =>
        /\ (fn.status # None /\ ~IsSuccess(fn.status[1])) => ~fn.out.ok
        /\ fn.out.ok => (fn.status # None /\ IsSuccess(fn.status[1]))

\* C34 witness: get_table_metadata asked for a table that is not in the
\* catalog, was answered 404 and returned the error.
C34_Witness ==
    /\ fn.op = "get_table_metadata"
    /\ fn.done
    /\ Key(fn.arg[1], fn.arg[2]) \notin DOMAIN tables
    /\ fn.status = Some(404)
    /\ ~fn.out.ok
    /\ fn.out.error = <<"Failed to get table metadata", 404>>

====
